---- MODULE Spec2Model ----
(***************************************************************************)
(* Potted Pals: the progression and economy engine (shop_manager.py,       *)
(* data_handler.py, models.py, plant_manager.py) together with the UI      *)
(* handlers that drive it (main_window.py, shop_window.py, grow_window.py).*)
(*                                                                         *)
(* Python values are represented as follows.                               *)
(*   str ids            TLA+ strings; a prefix test or a slice is computed *)
(*                      by matching  prefix \o rest  over the finite       *)
(*                      universe of suffixes that occur (Rests)            *)
(*   pet names          sequences of one-character strings                 *)
(*   dict               a function whose DOMAIN is the key set             *)
(*   list               a sequence                                         *)
(*   None               the record None                                    *)
(*   Optional[int]      <<>> for None, <<n>> for the integer n             *)
(*   dataclass          a record                                           *)
(***************************************************************************)
EXTENDS Integers, Sequences, FiniteSets, TLC

(***************************************************************************)
(* Bounds of the model (not program constants).                            *)
(***************************************************************************)
\* Tasks are offered while the balance stays at or below this cap.
MaxBalance == 1000
\* The richest asset folder considered holds stage images 0..MaxAssetStage.
MaxAssetStage == 6

(***************************************************************************)
(* models.py                                                               *)
(***************************************************************************)
None == [none |-> TRUE]

DEFAULT_PLANT_ID == "plant_shrub"

TASKS ==
    << [id |-> "went_to_class",      dewdrops |-> 5],
       [id |-> "ate_a_meal",         dewdrops |-> 10],
       [id |-> "drank_water",        dewdrops |-> 10],
       [id |-> "cooked_a_meal",      dewdrops |-> 20],
       [id |-> "did_laundry",        dewdrops |-> 30],
       [id |-> "studied_30min",      dewdrops |-> 50],
       [id |-> "slept_8hours",       dewdrops |-> 100],
       [id |-> "submitted_homework", dewdrops |-> 100],
       [id |-> "took_a_test",        dewdrops |-> 200] >>

ShopItem(id, name, cost, upgrade_stage) ==
    [id |-> id, name |-> name, cost |-> cost, upgrade_stage |-> upgrade_stage]

\* UserData(...) as a record of its six fields.
UserData(balance, active, stages, names, inv, login) ==
    [currency_balance |-> balance,
     active_plant_id  |-> active,
     plant_stages     |-> stages,
     pet_custom_names |-> names,
     inventory        |-> inv,
     last_login       |-> login]

(***************************************************************************)
(* Python dict and str helpers.                                            *)
(***************************************************************************)
EmptyDict == <<>>

\* d.get(k, default)
DictGet(d, k, default) == IF k \in DOMAIN d THEN d[k] ELSE default

\* d[k] = v
DictSet(d, k, v) == [x \in (DOMAIN d) \cup {k} |-> IF x = k THEN v ELSE d[x]]

\* del d[k]
DictDel(d, k) == [x \in (DOMAIN d) \ {k} |-> d[x]]

\* x in list
InList(x, list) == \E i \in 1..Len(list) : list[i] = x

\* The suffixes that follow "plant_" or "pet_" in the ids that occur.
Rests == {"shrub", "baby_cactus", "clover", "rose", "cherry_blossom", "strawberry",
          "japanese", "person", "mushroom", "cat", "slime"}

\* s.startswith(prefix)
StartsWith(s, prefix) == \E r \in Rests : s = prefix \o r

\* s[len(prefix):] for an s that starts with prefix
StripPrefix(s, prefix) == CHOOSE r \in Rests : s = prefix \o r

(***************************************************************************)
(* shop_manager.py: the catalog                                            *)
(***************************************************************************)
SHOP_ITEMS ==
    << ShopItem("plant_baby_cactus",    "Baby Cactus",    100,  <<>>),
       ShopItem("plant_clover",         "Clover",         200,  <<>>),
       ShopItem("plant_rose",           "Rose",           300,  <<>>),
       ShopItem("plant_cherry_blossom", "Cherry Blossom", 500,  <<>>),
       ShopItem("plant_strawberry",     "Strawberry",     1000, <<>>) >>

SHOP_PET_ITEMS ==
    << ShopItem("pet_person",   "Person",   250,  <<>>),
       ShopItem("pet_mushroom", "Mushroom", 500,  <<>>),
       ShopItem("pet_cat",      "Cat",      750,  <<>>),
       ShopItem("pet_slime",    "Slime",    1000, <<>>) >>

get_shop_plant_items == SHOP_ITEMS

get_shop_pet_items == SHOP_PET_ITEMS

\* First item of SHOP_PET_ITEMS + SHOP_ITEMS with this id, or None.
get_item(item_id) ==
    LET found == SelectSeq(SHOP_PET_ITEMS \o SHOP_ITEMS, LAMBDA item : item.id = item_id)
    IN  IF found = <<>> THEN None ELSE Head(found)

(***************************************************************************)
(* utils/image_loader.py: asset discovery.  A plants directory is a dict   *)
(* from the folders that exist to the set of stage numbers N for which the *)
(* folder holds an image  {folder}_stage_N.png.                            *)
(***************************************************************************)
\* max(a, b)
Max(a, b) == IF a >= b THEN a ELSE b

\* The largest element of a finite set of integers, or floor when it is empty.
MaxOf(S, floor) == IF S = {} THEN floor ELSE CHOOSE m \in S : \A n \in S : n <= m

get_plant_folder(dir, plant_id) ==
    LET folder == IF StartsWith(plant_id, "plant_")
                  THEN StripPrefix(plant_id, "plant_")
                  ELSE plant_id
    IN  IF folder \notin DOMAIN dir THEN "shrub" ELSE folder

\* The cache _max_stage_cache memoises this result per folder; the assets do
\* not change during a run, so a cached value equals the recomputed one.
get_max_stage(dir, plant_id) ==
    LET folder == get_plant_folder(dir, plant_id)
    IN  IF folder \notin DOMAIN dir
        THEN 0
        ELSE Max(0, MaxOf(dir[folder], -1))

(***************************************************************************)
(* shop_manager.py: stage upgrades, ownership, affordability, purchases    *)
(***************************************************************************)
\* f"upgrade_stage_{n}"
UpgradeId(n) == "upgrade_stage_" \o ToString(n)

\* get_stage_upgrade_items with range(0, max_s) for range(1, max_s + 1).
get_stage_upgrade_items_FromZero(dir, plant_id) ==
    LET max_s == get_max_stage(dir, plant_id)
    IN  [n \in 1..max_s |->
            ShopItem(UpgradeId(n - 1), "Grow to Stage " \o ToString(n - 1),
                     100 * (n - 1), <<n - 1>>)]

get_stage_upgrade_items(dir, plant_id) ==
    LET max_s == get_max_stage(dir, plant_id)
    IN  [n \in 1..max_s |->
            ShopItem(UpgradeId(n), "Grow to Stage " \o ToString(n), 100 * n, <<n>>)]

\* get_upgrade_item that looks the id up among the default plant's upgrades,
\* whatever plant_id is.
get_upgrade_item_AnyPlant(dir, item_id, plant_id) ==
    LET found == SelectSeq(get_stage_upgrade_items(dir, DEFAULT_PLANT_ID),
                           LAMBDA item : item.id = item_id)
    IN  IF found = <<>> THEN None ELSE Head(found)

get_upgrade_item(dir, item_id, plant_id) ==
    LET found == SelectSeq(get_stage_upgrade_items(dir, plant_id),
                           LAMBDA item : item.id = item_id)
    IN  IF found = <<>> THEN None ELSE Head(found)

\* get_plants_owned that lists the owned plants in the order of the shop.
get_plants_owned_ShopOrder(ud) ==
    <<DEFAULT_PLANT_ID>> \o
        SelectSeq([i \in 1..Len(SHOP_ITEMS) |-> SHOP_ITEMS[i].id],
                  LAMBDA item_id : InList(item_id, ud.inventory))

get_plants_owned(ud) ==
    <<DEFAULT_PLANT_ID>> \o
        SelectSeq(ud.inventory, LAMBDA item_id : StartsWith(item_id, "plant_"))

get_pets_owned(ud) ==
    LET pets == SelectSeq(ud.inventory, LAMBDA item_id : StartsWith(item_id, "pet_"))
    IN  [i \in 1..Len(pets) |-> StripPrefix(pets[i], "pet_")]

_active_plant_stage(ud) == DictGet(ud.plant_stages, ud.active_plant_id, 0)

\* can_afford without the balance test.
can_afford_NoBalanceCheck(ud, item_id) ==
    LET item == get_item(item_id)
    IN  IF item = None THEN FALSE
        ELSE IF InList(item_id, ud.inventory) THEN FALSE
        ELSE TRUE

\* can_afford without the already-owned test.
can_afford_IgnoresInventory(ud, item_id) ==
    LET item == get_item(item_id)
    IN  IF item = None THEN FALSE
        ELSE ud.currency_balance >= item.cost

\* can_afford with the test balance > cost.
can_afford_StrictlyMore(ud, item_id) ==
    LET item == get_item(item_id)
    IN  IF item = None THEN FALSE
        ELSE IF InList(item_id, ud.inventory) THEN FALSE
        ELSE ud.currency_balance > item.cost

can_afford(ud, item_id) ==
    LET item == get_item(item_id)
    IN  IF item = None THEN FALSE
        ELSE IF InList(item_id, ud.inventory) THEN FALSE
        ELSE ud.currency_balance >= item.cost

\* can_afford_upgrade that accepts any stage above the current one.
can_afford_upgrade_AllowsSkip(ud, item) ==
    IF item.upgrade_stage = <<>> THEN FALSE
    ELSE IF ud.currency_balance < item.cost THEN FALSE
    ELSE _active_plant_stage(ud) < item.upgrade_stage[1]

\* can_afford_upgrade that accepts a stage already attained.
can_afford_upgrade_AllowsRebuy(ud, item) ==
    IF item.upgrade_stage = <<>> THEN FALSE
    ELSE IF ud.currency_balance < item.cost THEN FALSE
    ELSE _active_plant_stage(ud) >= item.upgrade_stage[1] - 1

can_afford_upgrade(ud, item) ==
    IF item.upgrade_stage = <<>> THEN FALSE
    ELSE IF ud.currency_balance < item.cost THEN FALSE
    ELSE _active_plant_stage(ud) = item.upgrade_stage[1] - 1

already_has_upgrade(ud, item) ==
    IF item.upgrade_stage = <<>> THEN FALSE
    ELSE _active_plant_stage(ud) >= item.upgrade_stage[1]

\* purchase that takes no dewdrops for a pet.
purchase_FreePets(ud, item_id) ==
    IF ~can_afford(ud, item_id) THEN [ok |-> FALSE, ud |-> ud]
    ELSE LET item == get_item(item_id)
         IN  IF item = None THEN [ok |-> FALSE, ud |-> ud]
             ELSE [ok |-> TRUE,
                   ud |-> [ud EXCEPT
                       !.currency_balance = IF StartsWith(item_id, "plant_")
                                            THEN @ - item.cost
                                            ELSE @,
                       !.inventory = Append(@, item_id),
                       !.plant_stages = IF StartsWith(item_id, "plant_")
                                        THEN DictSet(@, item_id, 0)
                                        ELSE @]]

\* purchase that never initialises plant_stages.
purchase_NoStageInit(ud, item_id) ==
    IF ~can_afford(ud, item_id) THEN [ok |-> FALSE, ud |-> ud]
    ELSE LET item == get_item(item_id)
         IN  IF item = None THEN [ok |-> FALSE, ud |-> ud]
             ELSE [ok |-> TRUE,
                   ud |-> [ud EXCEPT
                       !.currency_balance = @ - item.cost,
                       !.inventory = Append(@, item_id)]]

\* purchase that initialises a stage for every item bought, pets included.
purchase_StageForEveryItem(ud, item_id) ==
    IF ~can_afford(ud, item_id) THEN [ok |-> FALSE, ud |-> ud]
    ELSE LET item == get_item(item_id)
         IN  IF item = None THEN [ok |-> FALSE, ud |-> ud]
             ELSE [ok |-> TRUE,
                   ud |-> [ud EXCEPT
                       !.currency_balance = @ - item.cost,
                       !.inventory = Append(@, item_id),
                       !.plant_stages = DictSet(@, item_id, 0)]]

\* purchase(user_data, item_id): the pair of the return value and the
\* user data as the call leaves it.
purchase(ud, item_id) ==
    IF ~can_afford(ud, item_id) THEN [ok |-> FALSE, ud |-> ud]
    ELSE LET item == get_item(item_id)
         IN  IF item = None THEN [ok |-> FALSE, ud |-> ud]
             ELSE [ok |-> TRUE,
                   ud |-> [ud EXCEPT
                       !.currency_balance = @ - item.cost,
                       !.inventory = Append(@, item_id),
                       !.plant_stages = IF StartsWith(item_id, "plant_")
                                        THEN DictSet(@, item_id, 0)
                                        ELSE @]]

\* purchase_upgrade that sets the stage of the default plant, whichever plant
\* is active.
purchase_upgrade_DefaultPlant(ud, item) ==
    IF item.upgrade_stage = <<>> \/ ~can_afford_upgrade(ud, item)
    THEN [ok |-> FALSE, ud |-> ud]
    ELSE [ok |-> TRUE,
          ud |-> [ud EXCEPT
              !.currency_balance = @ - item.cost,
              !.plant_stages = DictSet(@, DEFAULT_PLANT_ID, item.upgrade_stage[1])]]

\* purchase_upgrade that takes the cost of an upgrade it refuses.
purchase_upgrade_ChargesWhenRefused(ud, item) ==
    IF item.upgrade_stage = <<>> THEN [ok |-> FALSE, ud |-> ud]
    ELSE IF ~can_afford_upgrade(ud, item)
    THEN [ok |-> FALSE,
          ud |-> [ud EXCEPT !.currency_balance = Max(0, @ - item.cost)]]
    ELSE [ok |-> TRUE,
          ud |-> [ud EXCEPT
              !.currency_balance = @ - item.cost,
              !.plant_stages = DictSet(@, ud.active_plant_id, item.upgrade_stage[1])]]

\* purchase_upgrade(user_data, item), likewise.
purchase_upgrade(ud, item) ==
    IF item.upgrade_stage = <<>> \/ ~can_afford_upgrade(ud, item)
    THEN [ok |-> FALSE, ud |-> ud]
    ELSE [ok |-> TRUE,
          ud |-> [ud EXCEPT
              !.currency_balance = @ - item.cost,
              !.plant_stages = DictSet(@, ud.active_plant_id, item.upgrade_stage[1])]]

(***************************************************************************)
(* plant_manager.py                                                        *)
(***************************************************************************)
MILESTONES == <<0, 100, 200, 300, 400, 500>>

Min(a, b) == IF a <= b THEN a ELSE b

\* The for loop of get_stage_from_currency from the i-th milestone on (i counts
\* from 1; enumerate counts from 0, so it assigns i - 1).
RECURSIVE stage_loop(_, _, _)
stage_loop(balance, i, stage) ==
    IF i > Len(MILESTONES) THEN stage
    ELSE stage_loop(balance, i + 1,
                    IF balance >= MILESTONES[i] THEN i - 1 ELSE stage)

\* A loop whose test is balance > milestone.
get_stage_from_currency_Strict(balance) ==
    Min(Cardinality({i \in 1..Len(MILESTONES) : balance > MILESTONES[i]}), 5)

get_stage_from_currency(balance) == Min(stage_loop(balance, 1, 0), 5)

(***************************************************************************)
(* data_handler.py: the store.  DATA_FILE is a record: exists tells        *)
(* whether the file is there, kind what its bytes are (a JSON object, a    *)
(* JSON value of another type, text that is no JSON, bytes that are no     *)
(* UTF-8), and data is the dict a JSON object decodes to.                  *)
(***************************************************************************)
\* The key order of the dict literals of get_default_data and save_user_data.
FieldNames ==
    <<"currency_balance", "active_plant_id", "plant_stages", "pet_custom_names",
      "inventory", "last_login">>

get_default_data(today) ==
    [currency_balance |-> 0,
     active_plant_id  |-> DEFAULT_PLANT_ID,
     plant_stages     |-> DictSet(EmptyDict, DEFAULT_PLANT_ID, 0),
     pet_custom_names |-> EmptyDict,
     inventory        |-> <<>>,
     last_login       |-> today]

\* DATA_FILE.exists() is False.
NoFile == [exists |-> FALSE, kind |-> "none", data |-> EmptyDict]

\* A DATA_FILE whose content is no JSON object: kind is "bad_utf8" (bytes that
\* do not decode), "bad_json" (text json.load rejects), or the type of the JSON
\* value: "array" ([]), "string" ("abc"), "number" (5), "null".
OtherFile(kind) == [exists |-> TRUE, kind |-> kind, data |-> EmptyDict]

\* A save that truncates the file and writes nothing.
save_user_data_dict_WritesNothing(data) ==
    [exists |-> TRUE, kind |-> "bad_json", data |-> EmptyDict]

\* json.dump(data, f) on a freshly truncated file: the file holds data.
save_user_data_dict(data) == [exists |-> TRUE, kind |-> "object", data |-> data]

\* save_user_data that leaves pet_custom_names out of the dict it writes.
save_user_data_WithoutNames(ud) ==
    LET data_dict ==
            [currency_balance |-> ud.currency_balance,
             active_plant_id  |-> ud.active_plant_id,
             plant_stages     |-> ud.plant_stages,
             inventory        |-> ud.inventory,
             last_login       |-> ud.last_login]
    IN  save_user_data_dict(data_dict)

save_user_data(ud) ==
    LET data_dict ==
            [currency_balance |-> ud.currency_balance,
             active_plant_id  |-> ud.active_plant_id,
             plant_stages     |-> ud.plant_stages,
             pet_custom_names |-> ud.pet_custom_names,
             inventory        |-> ud.inventory,
             last_login       |-> ud.last_login]
    IN  save_user_data_dict(data_dict)

\* The outcome of load_user_data: the exception that escapes it (raised), or
\* the UserData it returns, and DATA_FILE afterwards.
Returned(ud, file) == [raised |-> FALSE, ud |-> ud, file |-> file]
Raised(file) == [raised |-> TRUE, ud |-> None, file |-> file]

\* Lines 48-49 without the test: the legacy names always win.
carry_custom_names_Always(data) ==
    DictSet(data, "pet_custom_names", DictGet(data, "plant_custom_names", EmptyDict))

\* Lines 48-49.
carry_custom_names(data) ==
    IF "pet_custom_names" \notin DOMAIN data
    THEN DictSet(data, "pet_custom_names",
                 DictGet(data, "plant_custom_names", EmptyDict))
    ELSE data

\* Lines 50-51.
drop_plant_custom_names(data) ==
    IF "plant_custom_names" \in DOMAIN data
    THEN DictDel(data, "plant_custom_names")
    ELSE data

\* Lines 53-54 with the legacy plant_stage ignored.
carry_plant_stage_StartsAtZero(data) ==
    IF "plant_stages" \notin DOMAIN data
    THEN DictSet(data, "plant_stages", DictSet(EmptyDict, DEFAULT_PLANT_ID, 0))
    ELSE data

\* Lines 53-54.
carry_plant_stage(data) ==
    IF "plant_stages" \notin DOMAIN data
    THEN DictSet(data, "plant_stages",
                 DictSet(EmptyDict, DEFAULT_PLANT_ID, DictGet(data, "plant_stage", 0)))
    ELSE data

\* Lines 55-56 without the test: the active plant is always reset.
default_active_plant_Always(data) == DictSet(data, "active_plant_id", DEFAULT_PLANT_ID)

\* Lines 55-56.
default_active_plant(data) ==
    IF "active_plant_id" \notin DOMAIN data
    THEN DictSet(data, "active_plant_id", DEFAULT_PLANT_ID)
    ELSE data

\* Lines 57-58.
replace_japanese_active(data) ==
    IF data["active_plant_id"] = "plant_japanese"
    THEN DictSet(data, "active_plant_id", DEFAULT_PLANT_ID)
    ELSE data

\* Lines 59-62 with the deprecated plant's stage written over the default's.
move_japanese_stage_Overwrites(data) ==
    IF "plant_japanese" \in DOMAIN data["plant_stages"]
    THEN LET stages == data["plant_stages"]
             moved  == DictSet(stages, DEFAULT_PLANT_ID, stages["plant_japanese"])
         IN  DictSet(data, "plant_stages", DictDel(moved, "plant_japanese"))
    ELSE data

\* Lines 59-62.
move_japanese_stage(data) ==
    IF "plant_japanese" \in DOMAIN data["plant_stages"]
    THEN LET stages == data["plant_stages"]
             moved  == DictSet(stages, DEFAULT_PLANT_ID,
                               DictGet(stages, DEFAULT_PLANT_ID,
                                       stages["plant_japanese"]))
         IN  DictSet(data, "plant_stages", DictDel(moved, "plant_japanese"))
    ELSE data

\* Lines 63-64.
drop_plant_stage(data) ==
    IF "plant_stage" \in DOMAIN data THEN DictDel(data, "plant_stage") ELSE data

\* Lines 65-67, default_data being get_default_data().
\* The fill loop that also overwrites last_login with today's date.
fill_missing_keys_ResetsLogin(data, default_data) ==
    [key \in (DOMAIN data) \cup DOMAIN default_data |->
        IF key \in DOMAIN data /\ key # "last_login"
        THEN data[key]
        ELSE default_data[key]]

fill_missing_keys(data, default_data) ==
    [key \in (DOMAIN data) \cup DOMAIN default_data |->
        IF key \in DOMAIN data THEN data[key] ELSE default_data[key]]

\* Lines 47-67, on the dict that json.load returned: one statement after the
\* other, each on the dict the one before left (s1 .. s8 hold that one dict).
migrate(data, default_data) ==
    LET s1 == {carry_custom_names(d)      : d \in {data}}
        s2 == {drop_plant_custom_names(d) : d \in s1}
        s3 == {carry_plant_stage(d)       : d \in s2}
        s4 == {default_active_plant(d)    : d \in s3}
        s5 == {replace_japanese_active(d) : d \in s4}
        s6 == {move_japanese_stage(d)     : d \in s5}
        s7 == {drop_plant_stage(d)        : d \in s6}
        s8 == {fill_missing_keys(d, default_data) : d \in s7}
    IN  CHOOSE d \in s8 : TRUE

\* Line 69, UserData(**data): a TypeError (handled at line 70, which returns the
\* default data) when data has a key that is no field.
make_user_data(data, default_data, file) ==
    IF DOMAIN data = DOMAIN default_data
    THEN Returned(data, file)
    ELSE Returned(default_data, file)

\* load_user_data(), today being the date of the clock.
load_user_data(file, today) ==
    LET default_data == get_default_data(today)
    IN  IF ~file.exists
        THEN Returned(default_data, save_user_data_dict(default_data))
        ELSE CASE file.kind = "bad_utf8" ->
                    \* json.load: UnicodeDecodeError, no handler for it
                    Raised(file)
               [] file.kind = "bad_json" ->
                    \* json.load: JSONDecodeError, handled at line 70
                    Returned(default_data, file)
               [] file.kind \in {"number", "null"} ->
                    \* line 48, "pet_custom_names" not in data: TypeError, handled
                    Returned(default_data, file)
               [] file.kind \in {"array", "string"} ->
                    \* line 49, data.get: AttributeError, no handler for it
                    Raised(file)
               [] file.kind = "object" ->
                    CHOOSE r \in {make_user_data(data, default_data, file) :
                                     data \in {migrate(file.data, default_data)}} : TRUE

(***************************************************************************)
(* Pet names: str.strip() on sequences of characters.                      *)
(***************************************************************************)
IsSpace(c) == c = " "

RECURSIVE LStrip(_)
LStrip(s) == IF s # <<>> /\ IsSpace(Head(s)) THEN LStrip(Tail(s)) ELSE s

RECURSIVE RStrip(_)
RStrip(s) ==
    IF s # <<>> /\ IsSpace(s[Len(s)]) THEN RStrip(SubSeq(s, 1, Len(s) - 1)) ELSE s

\* s.lstrip() in the place of s.strip()
Strip_LeftOnly(s) == LStrip(s)

\* s.strip()
Strip(s) == RStrip(LStrip(s))

\* The characters of the display names: the names of the pet catalog, and
\* pet_id.replace("_", " ").title() for the other ids that occur.
Chars(name) ==
    CASE name = "Person"   -> <<"P", "e", "r", "s", "o", "n">>
      [] name = "Mushroom" -> <<"M", "u", "s", "h", "r", "o", "o", "m">>
      [] name = "Cat"      -> <<"C", "a", "t">>
      [] name = "Slime"    -> <<"S", "l", "i", "m", "e">>

Title(pet_id) ==
    CASE pet_id = "shrub"          -> <<"S", "h", "r", "u", "b">>
      [] pet_id = "baby_cactus"    -> <<"B", "a", "b", "y", " ", "C", "a", "c", "t", "u", "s">>
      [] pet_id = "clover"         -> <<"C", "l", "o", "v", "e", "r">>
      [] pet_id = "rose"           -> <<"R", "o", "s", "e">>
      [] pet_id = "cherry_blossom" -> <<"C", "h", "e", "r", "r", "y", " ",
                                        "B", "l", "o", "s", "s", "o", "m">>
      [] pet_id = "strawberry"     -> <<"S", "t", "r", "a", "w", "b", "e", "r", "r", "y">>
      [] pet_id = "japanese"       -> <<"J", "a", "p", "a", "n", "e", "s", "e">>

get_pet_display_name(pet_id) ==
    LET item == get_item("pet_" \o pet_id)
    IN  IF item # None THEN Chars(item.name) ELSE Title(pet_id)

get_pet_display_name_for_user(pet_id, ud) ==
    LET custom == Strip(DictGet(ud.pet_custom_names, pet_id, <<>>))
    IN  IF custom # <<>> THEN custom ELSE get_pet_display_name(pet_id)

(***************************************************************************)
(* Inputs of the model.                                                    *)
(***************************************************************************)
\* The date the clock gives at start-up, and the day after.
Today == "2026-01-15"
Tomorrow == "2026-01-16"

\* The tasks the user submits in the Add Task dialog.
PickedTasks == {"studied_30min", "slept_8hours", "took_a_test"}

\* The item ids a Shop click passes to _buy: rows of the shop, together with
\* ids that are no shop row (the default plant, a stage upgrade).
ClickedItems ==
    {"plant_baby_cactus", "pet_person", DEFAULT_PLANT_ID, UpgradeId(1)}

\* What the user types into the rename dialog.
TypedNames == { <<>>, <<" ">>, <<"B">>, <<" ", "B", " ">> }

\* The asset folders the program may find: the shrub with stages 0..5 or with
\* stages 0..MaxAssetStage, a cactus with stages 0..2, a rose folder with no
\* stage image, and no folder for the clover.
AssetDir(shrub_max) ==
    [folder \in {"shrub", "baby_cactus", "rose"} |->
        CASE folder = "shrub"       -> 0..shrub_max
          [] folder = "baby_cactus" -> 0..2
          [] folder = "rose"        -> {}]

AssetDirs == {AssetDir(5), AssetDir(MaxAssetStage)}

(***************************************************************************)
(* State.                                                                  *)
(***************************************************************************)
VARIABLES
    user_data,      \* MainWindow.user_data, shared with every window
    data_file,      \* the content of DATA_FILE
    plants_dir,     \* the content of PLANTS_DIR
    shop_win,       \* the Shop window: open, and the pets of its Rename rows
    grow_win,       \* the Grow window: open, and the item ids of its rows
    switcher,       \* the plant switcher popup: open, and the plants of its buttons
    last_call,      \* the last call of load_user_data or get_stage_from_currency:
                    \* its name and what it read (None before any call)
    total_earned    \* the dewdrops added by _on_add_task_clicked since start-up

vars ==
    <<user_data, data_file, plants_dir, shop_win, grow_win, switcher, last_call,
      total_earned>>

Closed == [open |-> FALSE, rows |-> <<>>]

\* MainWindow.__init__ with no DATA_FILE: load_user_data saves and returns the
\* default data; no window is open.
Init ==
    /\ plants_dir \in AssetDirs
    /\ user_data = get_default_data(Today)
    /\ data_file = save_user_data_dict(get_default_data(Today))
    /\ shop_win = Closed
    /\ grow_win = Closed
    /\ switcher = Closed
    /\ last_call = [fn |-> "load_user_data", arg |-> NoFile]
    /\ total_earned = 0

(***************************************************************************)
(* main_window.py                                                          *)
(***************************************************************************)
\* _on_add_task_clicked with the dialog submitted for TASKS[i].
AddTask(i) ==
    /\ TASKS[i].id \in PickedTasks
    /\ user_data.currency_balance + TASKS[i].dewdrops <= MaxBalance
    /\ user_data' = [user_data EXCEPT !.currency_balance = @ + TASKS[i].dewdrops]
    /\ data_file' = save_user_data(user_data')
    /\ total_earned' = total_earned + TASKS[i].dewdrops
    /\ UNCHANGED <<plants_dir, last_call, shop_win, grow_win, switcher>>

\* A switcher that offers every plant of the shop, owned or not.
_open_plant_switcher_AllPlants ==
    /\ ~switcher.open
    /\ switcher' = [open |-> TRUE,
                    rows |-> <<DEFAULT_PLANT_ID>> \o
                             [i \in 1..Len(SHOP_ITEMS) |-> SHOP_ITEMS[i].id]]
    /\ UNCHANGED <<user_data, data_file, plants_dir, total_earned, last_call, shop_win, grow_win>>

_open_plant_switcher ==
    /\ ~switcher.open
    /\ switcher' = [open |-> TRUE, rows |-> get_plants_owned(user_data)]
    /\ UNCHANGED <<user_data, data_file, plants_dir, total_earned, last_call, shop_win, grow_win>>

close_plant_switcher ==
    /\ switcher.open
    /\ switcher' = Closed
    /\ UNCHANGED <<user_data, data_file, plants_dir, total_earned, last_call, shop_win, grow_win>>

select_plant(ud, plant_id) == [ud EXCEPT !.active_plant_id = plant_id]

\* A click on button i of the popup.
_select_plant_and_close(i) ==
    /\ switcher.open
    /\ i \in 1..Len(switcher.rows)
    /\ user_data' = select_plant(user_data, switcher.rows[i])
    /\ data_file' = save_user_data(user_data')
    /\ switcher' = Closed
    /\ UNCHANGED <<plants_dir, total_earned, last_call, shop_win, grow_win>>

(***************************************************************************)
(* shop_window.py                                                          *)
(***************************************************************************)
ShopShow ==
    /\ ~shop_win.open
    /\ shop_win' = [open |-> TRUE, rows |-> get_pets_owned(user_data)]
    /\ UNCHANGED <<user_data, data_file, plants_dir, total_earned, last_call, grow_win, switcher>>

close_shop ==
    /\ shop_win.open
    /\ shop_win' = Closed
    /\ UNCHANGED <<user_data, data_file, plants_dir, total_earned, last_call, grow_win, switcher>>

\* ShopWindow._buy(item_id)
ShopBuy(item_id) ==
    /\ shop_win.open
    /\ LET r == purchase(user_data, item_id)
       IN  IF ~r.ok
           THEN UNCHANGED <<user_data, data_file>>
           ELSE /\ user_data' = r.ud
                /\ data_file' = save_user_data(r.ud)
    /\ UNCHANGED <<plants_dir, total_earned, last_call, shop_win, grow_win, switcher>>

\* The body of _rename_pet once the dialog has returned new_name.
rename_pet(ud, pet_id, new_name) ==
    IF Strip(new_name) # <<>>
    THEN [ud EXCEPT !.pet_custom_names = DictSet(@, pet_id, Strip(new_name))]
    ELSE IF pet_id \in DOMAIN ud.pet_custom_names
         THEN [ud EXCEPT !.pet_custom_names = DictDel(@, pet_id)]
         ELSE ud

\* ShopWindow._rename_pet for Rename row i, the dialog confirmed with the
\* text typed (RenamePlantDialog._ok returns the text stripped).
_rename_pet(i, typed) ==
    /\ shop_win.open
    /\ i \in 1..Len(shop_win.rows)
    /\ user_data' = rename_pet(user_data, shop_win.rows[i], Strip(typed))
    /\ data_file' = save_user_data(user_data')
    /\ UNCHANGED <<plants_dir, total_earned, last_call, shop_win, grow_win, switcher>>

(***************************************************************************)
(* grow_window.py                                                          *)
(***************************************************************************)
GrowShow ==
    /\ ~grow_win.open
    /\ LET items == get_stage_upgrade_items(plants_dir, user_data.active_plant_id)
       IN  grow_win' = [open |-> TRUE, rows |-> [i \in 1..Len(items) |-> items[i].id]]
    /\ UNCHANGED <<user_data, data_file, plants_dir, total_earned, last_call, shop_win, switcher>>

close_grow ==
    /\ grow_win.open
    /\ grow_win' = Closed
    /\ UNCHANGED <<user_data, data_file, plants_dir, total_earned, last_call, shop_win, switcher>>

\* GrowWindow._buy(item_id) for the item id of row i.
GrowBuy(i) ==
    /\ grow_win.open
    /\ i \in 1..Len(grow_win.rows)
    /\ LET item == get_upgrade_item(plants_dir, grow_win.rows[i], user_data.active_plant_id)
           r    == IF item = None
                   THEN [ok |-> FALSE, ud |-> user_data]
                   ELSE purchase_upgrade(user_data, item)
       IN  IF ~r.ok
           THEN UNCHANGED <<user_data, data_file>>
           ELSE /\ user_data' = r.ud
                /\ data_file' = save_user_data(r.ud)
    /\ UNCHANGED <<plants_dir, total_earned, last_call, shop_win, grow_win, switcher>>

(***************************************************************************)
(* The application: any handler, in any order.                             *)
(***************************************************************************)
Next ==
    \/ \E i \in 1..Len(TASKS) : AddTask(i)
    \/ _open_plant_switcher
    \/ close_plant_switcher
    \/ \E i \in 1..(Len(SHOP_ITEMS) + 1) : _select_plant_and_close(i)
    \/ ShopShow
    \/ close_shop
    \/ \E item_id \in ClickedItems : ShopBuy(item_id)
    \/ \E i \in 1..Len(SHOP_PET_ITEMS), typed \in TypedNames : _rename_pet(i, typed)
    \/ GrowShow
    \/ close_grow
    \/ \E i \in 1..MaxAssetStage : GrowBuy(i)

Spec == Init /\ [][Next]_vars

(***************************************************************************)
(* Start-up on any store.  DATA_FILE is whatever an earlier run, an older  *)
(* version of the program or an editor left; MainWindow.__init__ loads it, *)
(* the plant switcher saves, and the program may be quit and started again.*)
(***************************************************************************)
\* The largest value of the legacy field plant_stage in a store.
MaxLegacyStage == 3

StoredKeys ==
    {"currency_balance", "active_plant_id", "plant_stages", "pet_custom_names",
     "inventory", "last_login", "plant_stage", "plant_custom_names"}

\* A key of a stored object: absent (<<>>) or present with a value of S.
Opt(S) == {<<>>} \cup {<<v>> : v \in S}

\* The values a store may hold under each key: current, deprecated and negative
\* ones.
StoredValues ==
    [currency_balance   |-> {0, 250, 0 - 50},
     active_plant_id    |-> {DEFAULT_PLANT_ID, "plant_baby_cactus", "plant_japanese"},
     plant_stages       |-> {[plant_shrub |-> 1],
                             [plant_japanese |-> 2],
                             [plant_shrub |-> 1, plant_japanese |-> 2],
                             [plant_shrub |-> 0, plant_baby_cactus |-> 2]},
     pet_custom_names   |-> {EmptyDict, [person |-> <<"B">>]},
     inventory          |-> {<<>>, <<"pet_person">>,
                             <<"plant_baby_cactus", "pet_person">>,
                             <<"plant_japanese">>},
     last_login         |-> {"2025-12-31"},
     plant_stage        |-> 0..MaxLegacyStage,
     plant_custom_names |-> {[person |-> <<"A", "l">>]}]

\* The JSON object whose keys are those with a choice of length 1.
StoredObject(c) == [key \in {k \in StoredKeys : Len(c[k]) = 1} |-> c[key][1]]

\* A stored object with a key the program has never written.
UnknownKeyObject == [currency_balance |-> 250, theme |-> "dark"]

\* A DATA_FILE that holds the JSON object data.
StoredFile(data) == [exists |-> TRUE, kind |-> "object", data |-> data]

\* The files with no JSON object in them.
OtherFiles ==
    {OtherFile(kind) : kind \in {"bad_utf8", "bad_json", "array", "string",
                                 "number", "null"}}

\* The program has stopped on an exception that nothing handled.
Crashed == [crashed |-> TRUE]

Running == user_data # None /\ user_data # Crashed

InitLoad ==
    /\ plants_dir = AssetDir(5)
    /\ user_data = None
    /\ \/ data_file \in {NoFile, StoredFile(UnknownKeyObject)} \cup OtherFiles
       \/ \E b  \in Opt(StoredValues.currency_balance),
             a  \in Opt(StoredValues.active_plant_id),
             st \in Opt(StoredValues.plant_stages),
             n  \in Opt(StoredValues.pet_custom_names),
             i  \in Opt(StoredValues.inventory),
             l  \in Opt(StoredValues.last_login),
             s  \in Opt(StoredValues.plant_stage),
             pn \in Opt(StoredValues.plant_custom_names) :
             data_file = StoredFile(StoredObject(
                 [currency_balance |-> b, active_plant_id |-> a, plant_stages |-> st,
                  pet_custom_names |-> n, inventory |-> i, last_login |-> l,
                  plant_stage |-> s, plant_custom_names |-> pn]))
    /\ shop_win = Closed
    /\ grow_win = Closed
    /\ switcher = Closed
    /\ last_call = None
    /\ total_earned = 0

\* MainWindow.__init__: self.user_data = load_user_data().
Startup ==
    /\ user_data = None
    /\ \E r \in {load_user_data(data_file, Today)} :
           /\ user_data' = IF r.raised THEN Crashed ELSE r.ud
           /\ data_file' = r.file
    /\ last_call' = [fn |-> "load_user_data", arg |-> data_file]
    /\ UNCHANGED <<plants_dir, total_earned, shop_win, grow_win, switcher>>

\* The process ends; nothing is saved on the way out.
Quit ==
    /\ user_data # None
    /\ user_data' = None
    /\ shop_win' = Closed
    /\ grow_win' = Closed
    /\ switcher' = Closed
    /\ UNCHANGED <<data_file, plants_dir, total_earned, last_call>>

NextLoad ==
    \/ Startup
    \/ Quit
    \/ Running /\ _open_plant_switcher
    \/ Running /\ close_plant_switcher
    \/ Running /\ \E i \in 1..(Len(SHOP_ITEMS) + 1) : _select_plant_and_close(i)

SpecLoad == InitLoad /\ [][NextLoad]_vars

(***************************************************************************)
(* get_stage_from_currency on any balance.                                 *)
(***************************************************************************)
\* The balances passed run from -MaxDebt to MaxStageBalance.
MaxDebt == 100
MaxStageBalance == 700

InitStage ==
    /\ Init
    /\ plants_dir = AssetDir(5)

stage_call(balance) ==
    /\ last_call' = [fn |-> "get_stage_from_currency", arg |-> balance,
                     result |-> get_stage_from_currency(balance)]
    /\ UNCHANGED <<user_data, data_file, plants_dir, total_earned, shop_win, grow_win, switcher>>

NextStage == \E balance \in (0 - MaxDebt)..MaxStageBalance : stage_call(balance)

SpecStage == InitStage /\ [][NextStage]_vars

(***************************************************************************)
(* The shop alone, with three plants and a pet to buy.                     *)
(***************************************************************************)
\* The item ids a Shop click passes to _buy here.
ShopClicks ==
    {"plant_baby_cactus", "plant_clover", "plant_rose", "pet_person",
     DEFAULT_PLANT_ID, UpgradeId(1)}

InitShop ==
    /\ Init
    /\ plants_dir = AssetDir(5)

NextShop ==
    \/ \E i \in 1..Len(TASKS) : AddTask(i)
    \/ ShopShow
    \/ close_shop
    \/ \E item_id \in ShopClicks : ShopBuy(item_id)

SpecShop == InitShop /\ [][NextShop]_vars

(***************************************************************************)
(* The asset queries on their own: any set of plant folders, each with any *)
(* of a few sets of stage images, and get_max_stage and                    *)
(* get_stage_upgrade_items called on plant ids with and without a folder.  *)
(***************************************************************************)
\* The folders PLANTS_DIR may hold.
AssetFolders == {"shrub", "baby_cactus", "rose"}

\* The stage numbers of the image files of a folder: none, stage 0 only, a
\* full run, a run with a gap.
ImageSets == {{}, {0}, 0..2, {0, 3}, 0..MaxAssetStage}

\* The plant ids the queries are called with; "rose" is a bare folder name.
AskedPlants ==
    {"plant_shrub", "plant_baby_cactus", "plant_rose", "plant_clover", "rose"}

InitAssets ==
    /\ plants_dir \in UNION {[folders -> ImageSets] : folders \in SUBSET AssetFolders}
    /\ user_data = get_default_data(Today)
    /\ data_file = save_user_data(get_default_data(Today))
    /\ shop_win = Closed
    /\ grow_win = Closed
    /\ switcher = Closed
    /\ last_call = [fn |-> "load_user_data", arg |-> NoFile]
    /\ total_earned = 0

max_stage_call(plant_id) ==
    /\ last_call' = [fn |-> "get_max_stage", arg |-> plant_id,
                     result |-> get_max_stage(plants_dir, plant_id)]
    /\ UNCHANGED <<user_data, data_file, plants_dir, total_earned, shop_win, grow_win, switcher>>

upgrade_items_call(plant_id) ==
    /\ last_call' = [fn |-> "get_stage_upgrade_items", arg |-> plant_id,
                     result |-> get_stage_upgrade_items(plants_dir, plant_id)]
    /\ UNCHANGED <<user_data, data_file, plants_dir, total_earned, shop_win, grow_win, switcher>>

NextAssets ==
    \/ \E plant_id \in AskedPlants : max_stage_call(plant_id)
    \/ \E plant_id \in AskedPlants : upgrade_items_call(plant_id)

SpecAssets == InitAssets /\ [][NextAssets]_vars

(***************************************************************************)
(* Properties.                                                             *)
(***************************************************************************)
\* Every id purchase may be called with: the catalog and ids outside it.
AllItemIds ==
    {SHOP_ITEMS[i].id : i \in 1..Len(SHOP_ITEMS)}
        \cup {SHOP_PET_ITEMS[i].id : i \in 1..Len(SHOP_PET_ITEMS)}
        \cup {DEFAULT_PLANT_ID, "plant_japanese", UpgradeId(1), UpgradeId(2)}

CatalogIds ==
    {SHOP_ITEMS[i].id : i \in 1..Len(SHOP_ITEMS)}
        \cup {SHOP_PET_ITEMS[i].id : i \in 1..Len(SHOP_PET_ITEMS)}

\* The number of occurrences of x in list.
Count(x, list) == Cardinality({i \in 1..Len(list) : list[i] = x})

\* The set of elements of a list.
Range(list) == {list[i] : i \in 1..Len(list)}

\* The stage-n upgrade item, as get_stage_upgrade_items builds it.
UpgradeItem(n) == ShopItem(UpgradeId(n), "Grow to Stage " \o ToString(n), 100 * n, <<n>>)

\* C1: the balance is never negative: no purchase and no upgrade overdraws it.
C1_BalanceNeverNegative == user_data.currency_balance >= 0

\* A purchase has spent the whole balance.
C1_Witness ==
    /\ user_data.currency_balance = 0
    /\ user_data.inventory # <<>>
    /\ _active_plant_stage(user_data) > 0

\* C2: for every catalog item, a successful purchase leaves the balance lower
\* by exactly the cost and the id exactly once in the inventory; a plant gets
\* its stage entry, set to 0.
C2_PurchaseEffect ==
    \A item_id \in CatalogIds :
        LET r == purchase(user_data, item_id)
        IN  r.ok =>
              /\ r.ud.currency_balance = user_data.currency_balance - get_item(item_id).cost
              /\ Count(item_id, r.ud.inventory) = 1
              /\ StartsWith(item_id, "plant_") =>
                    /\ item_id \in DOMAIN r.ud.plant_stages
                    /\ r.ud.plant_stages[item_id] = 0

\* After a pet was bought, a plant and another pet can be bought with success.
C2_Witness ==
    /\ InList("pet_person", user_data.inventory)
    /\ purchase(user_data, "plant_baby_cactus").ok
    /\ purchase(user_data, "pet_slime").ok

\* C3: an id that is in the inventory (it was purchased with success, now or
\* earlier) stays there, and a further purchase of it fails and changes
\* nothing, whatever the balance has become.
C3_SecondPurchaseFails ==
    [][\A item_id \in Range(user_data.inventory) \cup Range(user_data'.inventory) :
          /\ InList(item_id, user_data'.inventory)
          /\ purchase(user_data', item_id) = [ok |-> FALSE, ud |-> user_data']]_vars

\* An owned pet is clicked again in the shop with the balance at its cost.
C3_Witness ==
    /\ shop_win.open
    /\ InList("pet_person", user_data.inventory)
    /\ user_data.currency_balance >= 250

\* C4: a stage upgrade succeeds only with balance >= cost and the active plant
\* exactly one stage below; it then sets that stage exactly; any other stage
\* is refused and the state is left as it was.
C4_UpgradeStrictOrder ==
    \A n \in 1..(MaxAssetStage + 1) :
        LET r     == purchase_upgrade(user_data, UpgradeItem(n))
            stage == _active_plant_stage(user_data)
        IN  /\ r.ok =>
                  /\ user_data.currency_balance >= 100 * n
                  /\ stage = n - 1
                  /\ r.ud.plant_stages[user_data.active_plant_id] = n
            /\ stage # n - 1 => (~r.ok /\ r.ud = user_data)

\* A plant at stage 2 with enough dewdrops for the stage-4 upgrade.
C4_Witness ==
    /\ _active_plant_stage(user_data) = 2
    /\ user_data.currency_balance >= 400

\* C5: the stage of a plant never decreases, and a plant never loses its
\* entry: purchase never resets an existing plant to 0.
C5_StagesMonotone ==
    [][\A p \in DOMAIN user_data.plant_stages :
          /\ p \in DOMAIN user_data'.plant_stages
          /\ user_data'.plant_stages[p] >= user_data.plant_stages[p]]_vars

\* A purchased plant has grown and the shop is open with its price at hand.
C5_Witness ==
    /\ shop_win.open
    /\ DictGet(user_data.plant_stages, "plant_baby_cactus", 0) = 2
    /\ user_data.currency_balance >= 100

\* C6: the active plant is an owned plant and has a stage entry.
C6_ActivePlantOwned ==
    /\ InList(user_data.active_plant_id, get_plants_owned(user_data))
    /\ user_data.active_plant_id \in DOMAIN user_data.plant_stages

\* The switcher has made a purchased plant the active one.
C6_Witness == user_data.active_plant_id = "plant_baby_cactus"

\* C7: the keys of plant_stages are exactly the owned plants.
C7_StageKeysAreOwnedPlants ==
    DOMAIN user_data.plant_stages = Range(get_plants_owned(user_data))

\* A plant and a pet have been bought, and the bought plant has grown.
C7_Witness ==
    /\ Len(user_data.inventory) = 2
    /\ DictGet(user_data.plant_stages, "plant_baby_cactus", 0) > 0

\* C8: no id occurs twice in the inventory.
C8_InventoryUnique ==
    \A item_id \in Range(user_data.inventory) : Count(item_id, user_data.inventory) = 1

\* Both items are owned and the shop is open with dewdrops for either.
C8_Witness ==
    /\ shop_win.open
    /\ Len(user_data.inventory) = 2
    /\ user_data.currency_balance >= 250

\* C9: every stage lies in 0..5.
C9_StagesWithinFive ==
    \A p \in DOMAIN user_data.plant_stages : user_data.plant_stages[p] \in 0..5

\* C10: the store holds the six fields of the state in memory.
C10_StoreEqualsMemory ==
    /\ data_file.exists
    /\ DOMAIN data_file.data = Range(FieldNames)
    /\ \A f \in Range(FieldNames) : data_file.data[f] = user_data[f]

\* Every kind of mutation has happened: earning, a purchase, an upgrade, a
\* plant switch and a rename.
C10_Witness ==
    /\ user_data.currency_balance > 0
    /\ Len(user_data.inventory) = 2
    /\ user_data.active_plant_id = "plant_baby_cactus"
    /\ _active_plant_stage(user_data) > 0
    /\ user_data.pet_custom_names # EmptyDict


(***************************************************************************)
(* Loading the store.                                                      *)
(***************************************************************************)
\* A step of Startup: load_user_data has been called and has ended.
StartupStep == user_data = None /\ user_data' # None

\* The last load read the file f0 and returned a UserData.
LoadedFrom(f0) ==
    /\ last_call # None
    /\ last_call.fn = "load_user_data"
    /\ last_call.arg = f0
    /\ Running

\* C11: load_user_data on a missing DATA_FILE returns the default data (balance
\* 0, the default plant active at stage 0, no inventory, no pet names) and
\* leaves a DATA_FILE that holds exactly the record it returned.
C11_MissingStoreGivesDefault ==
    [][(StartupStep /\ ~data_file.exists) =>
          /\ user_data' # Crashed
          /\ user_data'.currency_balance = 0
          /\ user_data'.active_plant_id = "plant_shrub"
          /\ user_data'.plant_stages = [plant_shrub |-> 0]
          /\ user_data'.pet_custom_names = <<>>
          /\ user_data'.inventory = <<>>
          /\ data_file'.exists
          /\ data_file'.kind = "object"
          /\ data_file'.data = user_data']_vars

C11_Witness ==
    /\ LoadedFrom(NoFile)
    /\ user_data.currency_balance = 0
    /\ data_file.exists
    /\ data_file.data = user_data

\* C12: load_user_data on a DATA_FILE that exists and cannot be parsed (bytes
\* that are no UTF-8, or text that is no JSON) raises nothing and returns the
\* default data, with no field taken from the file.
C12_UnparseableStoreGivesDefault ==
    [][(StartupStep /\ data_file.kind \in {"bad_utf8", "bad_json"}) =>
          /\ user_data' # Crashed
          /\ user_data' = [currency_balance |-> 0,
                           active_plant_id  |-> "plant_shrub",
                           plant_stages     |-> [plant_shrub |-> 0],
                           pet_custom_names |-> <<>>,
                           inventory        |-> <<>>,
                           last_login       |-> Today]]_vars

\* The store holds JSON whose types are not those of a UserData: a top-level
\* value that is no object, or a negative currency_balance.
TypeMismatched(file) ==
    \/ file.kind \in {"array", "string", "number", "null"}
    \/ /\ file.kind = "object"
       /\ "currency_balance" \in DOMAIN file.data
       /\ file.data["currency_balance"] < 0

\* C13: load_user_data on a DATA_FILE that parses and holds type-mismatched data
\* raises nothing and returns the default data.
C13_MismatchedStoreGivesDefault ==
    [][(StartupStep /\ data_file.exists /\ TypeMismatched(data_file)) =>
          /\ user_data' # Crashed
          /\ user_data' = [currency_balance |-> 0,
                           active_plant_id  |-> "plant_shrub",
                           plant_stages     |-> [plant_shrub |-> 0],
                           pet_custom_names |-> <<>>,
                           inventory        |-> <<>>,
                           last_login       |-> Today]]_vars

\* The store is a legacy record: plant_stage = s and no plant_stages.
LegacyStage(file, s) ==
    /\ file.kind = "object"
    /\ "plant_stage" \in DOMAIN file.data
    /\ "plant_stages" \notin DOMAIN file.data
    /\ file.data["plant_stage"] = s

\* C14: load_user_data on a legacy record with plant_stage = s and no
\* plant_stages returns plant_stages = {default plant: s}, for every s, and a
\* UserData with the six current fields only.
C14_LegacyStageMigrated ==
    [][\A s \in 0..MaxLegacyStage :
          (StartupStep /\ LegacyStage(data_file, s)) =>
              /\ user_data' # Crashed
              /\ user_data'.plant_stages = [plant_shrub |-> s]
              /\ DOMAIN user_data' = Range(FieldNames)]_vars

C14_Witness ==
    /\ last_call # None
    /\ LegacyStage(last_call.arg, MaxLegacyStage)
    /\ LoadedFrom(last_call.arg)
    /\ user_data.plant_stages = [plant_shrub |-> MaxLegacyStage]
    /\ user_data.currency_balance = 250

\* C15: load_user_data on a record that mentions "plant_japanese": an active
\* plant "plant_japanese" becomes the default plant; the key "plant_japanese"
\* leaves plant_stages, and the default plant's stage is the one it had if it
\* had one, the stage of "plant_japanese" otherwise.
C15_JapaneseMigrated ==
    [][(StartupStep /\ data_file.kind = "object"
                    /\ DOMAIN data_file.data \subseteq StoredKeys) =>
          LET old == data_file.data
          IN  /\ user_data' # Crashed
              /\ ("active_plant_id" \in DOMAIN old
                    /\ old["active_plant_id"] = "plant_japanese")
                 => user_data'.active_plant_id = "plant_shrub"
              /\ ("plant_stages" \in DOMAIN old
                    /\ "plant_japanese" \in DOMAIN old["plant_stages"])
                 => /\ "plant_japanese" \notin DOMAIN user_data'.plant_stages
                    /\ user_data'.plant_stages["plant_shrub"] =
                          IF "plant_shrub" \in DOMAIN old["plant_stages"]
                          THEN old["plant_stages"]["plant_shrub"]
                          ELSE old["plant_stages"]["plant_japanese"]]_vars

C15_Witness ==
    /\ last_call # None
    /\ last_call.arg.kind = "object"
    /\ DOMAIN last_call.arg.data = {"active_plant_id", "plant_stages"}
    /\ last_call.arg.data["active_plant_id"] = "plant_japanese"
    /\ last_call.arg.data["plant_stages"] = [plant_japanese |-> 2]
    /\ LoadedFrom(last_call.arg)
    /\ user_data.active_plant_id = "plant_shrub"
    /\ user_data.plant_stages = [plant_shrub |-> 2]

\* C16: in every state of the running program, saving user_data and loading
\* the file (on any later day) returns a UserData equal to it in all six
\* fields, the order of the inventory included.
C16_SaveLoadRoundTrip ==
    \A r \in {load_user_data(save_user_data(user_data), Tomorrow)} :
        /\ ~r.raised
        /\ DOMAIN r.ud = DOMAIN user_data
        /\ \A i \in 1..Len(FieldNames) : r.ud[FieldNames[i]] = user_data[FieldNames[i]]

C16_Witness ==
    /\ user_data.inventory = <<"pet_person", "plant_baby_cactus">>
    /\ user_data.active_plant_id = "plant_baby_cactus"
    /\ user_data.plant_stages["plant_baby_cactus"] = 1
    /\ DOMAIN user_data.pet_custom_names = {"person"}
    /\ load_user_data(data_file, Tomorrow).ud = user_data

\* C17: for a store that is missing or holds a record of the current or a
\* legacy schema, S1 = load(), save(S1), load() returns S1 again and leaves the
\* file save(S1) wrote, and a second save writes the same file.
C17_SaveLoadIdempotent ==
    [][(StartupStep /\ data_file.kind \in {"none", "object"}) =>
          /\ user_data' # Crashed
          /\ \A r2 \in {load_user_data(save_user_data(user_data'), Tomorrow)} :
                /\ ~r2.raised
                /\ r2.ud = user_data'
                /\ r2.file = save_user_data(user_data')
                /\ save_user_data(r2.ud) = r2.file]_vars

C17_Witness ==
    /\ last_call # None
    /\ last_call.arg.kind = "object"
    /\ DOMAIN last_call.arg.data = {"plant_stage", "plant_custom_names", "inventory"}
    /\ LoadedFrom(last_call.arg)
    /\ DOMAIN user_data.pet_custom_names = {"person"}
    /\ load_user_data(save_user_data(user_data), Tomorrow).ud = user_data

Trimmed(text) == text # <<>> /\ text[1] # " " /\ text[Len(text)] # " "

\* stored is typed without the spaces at its two ends.
TrimOf(typed, stored) ==
    /\ Trimmed(stored)
    /\ \E a \in 0..Len(typed) :
          /\ a + Len(stored) <= Len(typed)
          /\ SubSeq(typed, a + 1, a + Len(stored)) = stored
          /\ \A j \in 1..Len(typed) :
                (j <= a \/ j > a + Len(stored)) => typed[j] = " "

\* C19: a rename of an owned pet stores the typed name trimmed when that is not
\* empty and removes the pet's name otherwise; every name in pet_custom_names
\* is non-empty with no space at either end; and a pet renamed to an empty or
\* all-space text is displayed under its catalog name.
C19_CustomNamesTrimmed ==
    /\ \A pet \in DOMAIN user_data.pet_custom_names :
          Trimmed(user_data.pet_custom_names[pet])
    /\ \A pet \in Range(get_pets_owned(user_data)), typed \in TypedNames :
          \A after \in {rename_pet(user_data, pet, typed)} :
              IF \E j \in 1..Len(typed) : typed[j] # " "
              THEN /\ pet \in DOMAIN after.pet_custom_names
                   /\ TrimOf(typed, after.pet_custom_names[pet])
              ELSE /\ pet \notin DOMAIN after.pet_custom_names
                   /\ \E i \in 1..Len(SHOP_PET_ITEMS) :
                         /\ SHOP_PET_ITEMS[i].id = "pet_" \o pet
                         /\ get_pet_display_name_for_user(pet, after)
                               = Chars(SHOP_PET_ITEMS[i].name)

C19_Witness ==
    /\ InList("pet_person", user_data.inventory)
    /\ "person" \in DOMAIN user_data.pet_custom_names
    /\ user_data.pet_custom_names["person"] = <<"B">>
    /\ get_pet_display_name_for_user("person", user_data) = <<"B">>
    /\ get_pet_display_name_for_user("person", rename_pet(user_data, "person", <<" ">>))
          = <<"P", "e", "r", "s", "o", "n">>

\* The stage the last call of get_stage_from_currency returned is the one the
\* milestones 0, 100, 200, 300, 400, 500 give.
StageAsSpecified(call) ==
    LET b == call.arg
        s == call.result
        reached == {i \in 0..5 : b >= 100 * i}
    IN  /\ s \in 0..5
        /\ reached # {} => (s \in reached /\ \A i \in reached : i <= s)
        /\ b \in 0..99 => s = 0
        /\ b >= 500 => s = 5

\* C20: get_stage_from_currency(b) is the highest i of 0..5 with b >= 100 * i;
\* it is 0 on 0..99, 5 from 500 on, within 0..5 for every b, negative ones
\* included, and a larger b never gives a smaller stage.
C20_StageForBalance ==
    [][/\ StageAsSpecified(last_call')
       /\ (last_call.fn = "get_stage_from_currency" /\ last_call.arg <= last_call'.arg)
             => last_call.result <= last_call'.result]_vars

C20_Witness ==
    /\ last_call.fn = "get_stage_from_currency"
    /\ last_call.arg = 499
    /\ last_call.result = 4


(***************************************************************************)
(* Refusals, ownership, frames, conservation and stale windows.            *)
(***************************************************************************)
\* C21: a refused purchase (an id outside the catalog, a stage-upgrade id
\* included; an id already in the inventory; a balance below the cost) and a
\* refused purchase_upgrade (an item that is no upgrade; a balance below the
\* cost; a stage out of sequence) return False and leave user_data as it was.
C21_RejectedOperationsAtomic ==
    /\ \A item_id \in AllItemIds :
          (\/ item_id \notin CatalogIds
           \/ InList(item_id, user_data.inventory)
           \/ user_data.currency_balance < get_item(item_id).cost)
          => purchase(user_data, item_id) = [ok |-> FALSE, ud |-> user_data]
    /\ \A n \in 1..(MaxAssetStage + 1) :
          (\/ user_data.currency_balance < 100 * n
           \/ _active_plant_stage(user_data) # n - 1)
          => purchase_upgrade(user_data, UpgradeItem(n))
                = [ok |-> FALSE, ud |-> user_data]
    /\ \A item_id \in CatalogIds :
          purchase_upgrade(user_data, get_item(item_id))
             = [ok |-> FALSE, ud |-> user_data]

\* An owned pet, a plant at stage 1 and dewdrops for the stage-4 upgrade, but
\* not for the slime: each kind of refusal has a case.
C21_Witness ==
    /\ InList("pet_person", user_data.inventory)
    /\ _active_plant_stage(user_data) = 1
    /\ user_data.currency_balance \in 400..999


\* C22: purchase returns True exactly when can_afford holds, that is when the
\* id is a catalog plant or pet, is not in the inventory and the balance is at
\* least the cost; a balance equal to the cost is enough and leaves 0: with
\* 250 dewdrops and nothing bought, pet_person is bought and the owned pets
\* are ["person"].
C22_PurchaseIffAffordable ==
    /\ \A item_id \in AllItemIds :
          LET allowed == /\ item_id \in CatalogIds
                         /\ ~InList(item_id, user_data.inventory)
                         /\ user_data.currency_balance >= get_item(item_id).cost
              r       == purchase(user_data, item_id)
          IN  /\ r.ok = allowed
              /\ can_afford(user_data, item_id) = allowed
              /\ (allowed /\ user_data.currency_balance = get_item(item_id).cost)
                    => r.ud.currency_balance = 0
    /\ (user_data.currency_balance = 250 /\ user_data.inventory = <<>>)
          => LET r == purchase(user_data, "pet_person")
             IN  /\ r.ok
                 /\ r.ud.currency_balance = 0
                 /\ get_pets_owned(r.ud) = <<"person">>

\* 250 dewdrops were earned and pet_person was bought with them.
C22_Witness ==
    /\ total_earned = 250
    /\ user_data.currency_balance = 0
    /\ user_data.inventory = <<"pet_person">>
    /\ get_pets_owned(user_data) = <<"person">>

\* The plants of a list of item ids, in the order of the list.
PlantsOf(inventory) ==
    SelectSeq(inventory, LAMBDA item_id : \E r \in Rests : item_id = "plant_" \o r)

\* C23: the owned plants are the default plant followed by the plants of the
\* inventory in the order they were bought (a purchase adds its plant at the
\* end); no plant is listed twice, and the default plant is never in the
\* inventory.
C23_OwnedPlantsOrdered ==
    [][LET before == get_plants_owned(user_data)
           owned  == get_plants_owned(user_data')
       IN  /\ ~InList("plant_shrub", user_data'.inventory)
           /\ owned = <<"plant_shrub">> \o PlantsOf(user_data'.inventory)
           /\ \A i, j \in 1..Len(owned) : i # j => owned[i] # owned[j]
           /\ Len(before) <= Len(owned)
           /\ SubSeq(owned, 1, Len(before)) = before]_vars

\* Three plants were bought, the dearest first.
C23_Witness ==
    get_plants_owned(user_data)
        = <<"plant_shrub", "plant_rose", "plant_baby_cactus", "plant_clover">>


\* C24: a step that changes the stage of a plant (a purchase_upgrade that
\* succeeded) changes the stage of the plant that was active when it was
\* taken, and the balance, by the price of the new stage; the other stages,
\* the inventory, the active plant, the pet names and the login date stay.
C24_UpgradeFrame ==
    [][\A p \in DOMAIN user_data.plant_stages :
          (p \in DOMAIN user_data'.plant_stages
             /\ user_data'.plant_stages[p] # user_data.plant_stages[p])
          => /\ p = user_data.active_plant_id
             /\ user_data'.active_plant_id = user_data.active_plant_id
             /\ user_data'.inventory = user_data.inventory
             /\ user_data'.pet_custom_names = user_data.pet_custom_names
             /\ user_data'.last_login = user_data.last_login
             /\ DOMAIN user_data'.plant_stages = DOMAIN user_data.plant_stages
             /\ \A q \in DOMAIN user_data.plant_stages \ {p} :
                   user_data'.plant_stages[q] = user_data.plant_stages[q]
             /\ user_data'.currency_balance
                   = user_data.currency_balance - 100 * user_data'.plant_stages[p]]_vars

\* The bought plant is active and has grown past the default plant, with a pet
\* owned and named.
C24_Witness ==
    /\ user_data.active_plant_id = "plant_baby_cactus"
    /\ DictGet(user_data.plant_stages, "plant_baby_cactus", 0) = 2
    /\ user_data.plant_stages["plant_shrub"] = 1
    /\ DOMAIN user_data.pet_custom_names = {"person"}

\* C25: get_stage_upgrade_items returns get_max_stage items, the n-th one the
\* upgrade to stage n with id upgrade_stage_n and cost 100 * n, and the empty
\* list when the max stage is 0.
C25_UpgradeListPerStage ==
    last_call.fn = "get_stage_upgrade_items"
    => LET items == last_call.result
           max_s == get_max_stage(plants_dir, last_call.arg)
       IN  /\ Len(items) = max_s
           /\ \A n \in 1..max_s :
                 /\ items[n].id = "upgrade_stage_" \o ToString(n)
                 /\ items[n].cost = 100 * n
                 /\ items[n].upgrade_stage = <<n>>
           /\ max_s = 0 => items = <<>>

\* The list of a plant whose folder holds images with a gap: stages 0 and 3.
C25_Witness ==
    /\ last_call.fn = "get_stage_upgrade_items"
    /\ last_call.arg = "plant_baby_cactus"
    /\ "baby_cactus" \in DOMAIN plants_dir
    /\ plants_dir["baby_cactus"] = {0, 3}
    /\ Len(last_call.result) = 3

\* plant_id[6:] for an id that starts with plant_, the id itself otherwise.
FolderOf(plant_id) ==
    IF StartsWith(plant_id, "plant_") THEN StripPrefix(plant_id, "plant_") ELSE plant_id

\* C26: for a plant id with no asset folder, get_max_stage is 0 and
\* get_stage_upgrade_items is empty.
C26_UnknownPlantHasNoStages ==
    /\ (last_call.fn = "get_max_stage"
          /\ FolderOf(last_call.arg) \notin DOMAIN plants_dir)
       => last_call.result = 0
    /\ (last_call.fn = "get_stage_upgrade_items"
          /\ FolderOf(last_call.arg) \notin DOMAIN plants_dir)
       => last_call.result = <<>>

\* The prices of the items of a list of ids.
RECURSIVE PaidForItems(_)
PaidForItems(inventory) ==
    IF inventory = <<>> THEN 0
    ELSE get_item(Head(inventory)).cost + PaidForItems(Tail(inventory))

\* 100 * 1 + ... + 100 * stage
RECURSIVE PaidForStage(_)
PaidForStage(stage) == IF stage <= 0 THEN 0 ELSE 100 * stage + PaidForStage(stage - 1)

\* The prices of the stages of the plants of keys.
RECURSIVE PaidForStages(_, _)
PaidForStages(stages, keys) ==
    IF keys = {} THEN 0
    ELSE LET p == CHOOSE k \in keys : TRUE
         IN  PaidForStage(stages[p]) + PaidForStages(stages, keys \ {p})

\* C29: the balance, the prices of the items in the inventory and the prices
\* of the stages every plant has gone through add up to the dewdrops earned.
C29_CurrencyConserved ==
    user_data.currency_balance
        + PaidForItems(user_data.inventory)
        + PaidForStages(user_data.plant_stages, DOMAIN user_data.plant_stages)
    = total_earned

\* 1000 dewdrops earned; a plant, a pet and two stages of the shrub bought.
C29_Witness ==
    /\ total_earned = 1000
    /\ Len(user_data.inventory) = 2
    /\ user_data.plant_stages["plant_shrub"] = 2
    /\ user_data.currency_balance = 350

\* C30: whatever windows are open and however old their rows are, a step never
\* charges for an item that is already owned, and a step that changes a stage
\* raises the stage of the plant active at that moment by exactly one, to at
\* most the max stage of that plant, for the price of that stage.
C30_ClicksRevalidate ==
    [][/\ \A p \in DOMAIN user_data.plant_stages :
             (p \in DOMAIN user_data'.plant_stages
                /\ user_data'.plant_stages[p] # user_data.plant_stages[p])
             => /\ p = user_data.active_plant_id
                /\ user_data'.plant_stages[p] = user_data.plant_stages[p] + 1
                /\ user_data'.plant_stages[p] <= get_max_stage(plants_dir, p)
       /\ user_data'.currency_balance < user_data.currency_balance
             => \/ \E item_id \in CatalogIds :
                      /\ ~InList(item_id, user_data.inventory)
                      /\ user_data'.inventory = Append(user_data.inventory, item_id)
                      /\ user_data'.currency_balance
                            = user_data.currency_balance - get_item(item_id).cost
                \/ /\ user_data'.inventory = user_data.inventory
                   /\ user_data'.plant_stages[user_data.active_plant_id]
                         = _active_plant_stage(user_data) + 1
                   /\ user_data'.currency_balance
                         = user_data.currency_balance
                              - 100 * user_data'.plant_stages[user_data.active_plant_id]]_vars

\* The Grow window still shows the rows of the shrub while the cactus is
\* active and fully grown, with dewdrops for the stage-3 row, and the Shop is
\* open on an owned pet.
C30_Witness ==
    /\ grow_win.open
    /\ Len(grow_win.rows) > 2
    /\ shop_win.open
    /\ switcher.open
    /\ user_data.active_plant_id = "plant_baby_cactus"
    /\ DictGet(user_data.plant_stages, "plant_baby_cactus", 0) = 2
    /\ InList("pet_person", user_data.inventory)
    /\ user_data.currency_balance >= 300


\* Two dicts with the same keys and the same value under each.
DictEq(a, b) == DOMAIN a = DOMAIN b /\ \A k \in DOMAIN a : a[k] = b[k]

\* The store holds a JSON object with current and legacy keys only.
OlderSchema(file) == file.kind = "object" /\ DOMAIN file.data \subseteq StoredKeys

\* C27: load_user_data on an object with any subset of the current and legacy
\* keys returns currency_balance, inventory and last_login as stored,
\* pet_custom_names as stored or else the stored plant_custom_names,
\* active_plant_id and plant_stages as stored when they do not mention
\* "plant_japanese", and the default for every field still missing (the legacy
\* plant_stage for the default plant's stage when there is one).
C27_OlderSchemaPreserved ==
    [][(StartupStep /\ OlderSchema(data_file)) =>
          \A d \in {data_file.data} :
             /\ user_data' # Crashed
             /\ DOMAIN user_data' = Range(FieldNames)
             /\ user_data'.currency_balance = DictGet(d, "currency_balance", 0)
             /\ user_data'.inventory = DictGet(d, "inventory", <<>>)
             /\ user_data'.last_login = DictGet(d, "last_login", Today)
             /\ DictEq(user_data'.pet_custom_names,
                       DictGet(d, "pet_custom_names",
                               DictGet(d, "plant_custom_names", EmptyDict)))
             /\ "active_plant_id" \notin DOMAIN d
                   => user_data'.active_plant_id = DEFAULT_PLANT_ID
             /\ ("active_plant_id" \in DOMAIN d /\ d["active_plant_id"] # "plant_japanese")
                   => user_data'.active_plant_id = d["active_plant_id"]
             /\ "plant_stages" \notin DOMAIN d
                   => DictEq(user_data'.plant_stages,
                             [plant_shrub |-> DictGet(d, "plant_stage", 0)])
             /\ ("plant_stages" \in DOMAIN d
                    /\ "plant_japanese" \notin DOMAIN d["plant_stages"])
                   => DictEq(user_data'.plant_stages, d["plant_stages"])]_vars

\* A record with a balance, a legacy stage and legacy names was loaded: the
\* balance is kept, the names are carried over and the rest is the default.
C27_Witness ==
    /\ last_call # None
    /\ last_call.arg.kind = "object"
    /\ DOMAIN last_call.arg.data = {"currency_balance", "plant_stage", "plant_custom_names"}
    /\ LoadedFrom(last_call.arg)
    /\ user_data.currency_balance = 250
    /\ DOMAIN user_data.pet_custom_names = {"person"}
    /\ user_data.last_login = Today
    /\ user_data.inventory = <<>>

\* C28: after load_user_data on any object of current and legacy keys, every
\* owned plant has an entry in plant_stages and the active plant is an owned
\* plant with an entry in plant_stages.
C28_LoadedStateWellFormed ==
    [][(StartupStep /\ OlderSchema(data_file)) =>
          /\ user_data' # Crashed
          /\ \A i \in 1..Len(get_plants_owned(user_data')) :
                get_plants_owned(user_data')[i] \in DOMAIN user_data'.plant_stages
          /\ InList(user_data'.active_plant_id, get_plants_owned(user_data'))
          /\ user_data'.active_plant_id \in DOMAIN user_data'.plant_stages]_vars

====
